---- MODULE Spec2Model ----
(***************************************************************************)
(* Model of pyod.models.iforest.IForest: a detector object that wraps      *)
(* scikit-learn's IsolationForest.  The state is the attribute dictionary  *)
(* of one IForest instance; the operations are fit, decision_function and  *)
(* the three property accessors.  Real-valued quantities are integers in   *)
(* hundredths (contamination 0.1 is 10, max_features 1.0 is 100).  An      *)
(* attribute that may be absent is a sequence of length 0 (absent) or 1.   *)
(***************************************************************************)
EXTENDS Integers, Sequences, FiniteSets, TLC

VARIABLES
    cfg,               \* the configuration attributes, set by __init__ and never reassigned
    detector_,         \* the wrapped IsolationForest, absent before fit
    decision_scores_,  \* negated training scores
    threshold_,        \* set by _process_decision_scores
    labels_,           \* set by _process_decision_scores
    _classes,          \* set by _set_n_classes
    last,              \* the most recent call: operation, arguments, outcome
    lastFit,           \* the most recent fit call that passed input validation
    everFitOk,         \* some fit call has returned normally
    nConstructed       \* number of wrapped estimators constructed so far

vars == <<cfg, detector_, decision_scores_, threshold_, labels_, _classes,
          last, lastFit, everFitOk, nConstructed>>

attrs == <<detector_, decision_scores_, threshold_, labels_, _classes>>

----------------------------------------------------------------------------
(* Bounds of the model *)

MaxRows == 2       \* input arrays have 1..MaxRows samples
MaxFits == 2       \* at most MaxFits wrapped estimators are constructed

----------------------------------------------------------------------------
(* Optional attributes *)

Absent == <<>>
Some(v) == <<v>>
Has(a) == Len(a) = 1
Get(a) == a[1]

----------------------------------------------------------------------------
(* Configuration: __init__ defaults and one alternative value per field *)

DefaultNEstimators == 100
AUTO == 0                      \* stands for the string "auto"
DefaultContamination == 10     \* 0.1
DefaultMaxFeatures == 100      \* 1.0, a fraction of the features
DefaultNJobs == 1
None == 0                      \* random_state=None
DefaultVerbose == 0
AutoCap == 256                 \* "auto" resolves to min(256, n_samples)

DefaultConfig ==
    [n_estimators  |-> DefaultNEstimators,
     max_samples   |-> AUTO,
     contamination |-> DefaultContamination,
     max_features  |-> DefaultMaxFeatures,
     bootstrap     |-> FALSE,
     n_jobs        |-> DefaultNJobs,
     random_state  |-> None,
     verbose       |-> DefaultVerbose]

\* Constructor arguments tried.  Every argument takes two values over the
\* set.  n_estimators=0 is rejected by the wrapped estimator on any data,
\* max_features=0.5 is rejected by it on one-column data.
Configs ==
    {DefaultConfig,
     [DefaultConfig EXCEPT !.n_estimators = 0],
     [DefaultConfig EXCEPT !.random_state = 7],
     [DefaultConfig EXCEPT !.max_samples = 1, !.contamination = 50,
                           !.max_features = 50, !.bootstrap = TRUE,
                           !.n_jobs = 2, !.verbose = 1]}

----------------------------------------------------------------------------
(* Inputs *)

Array(n, m, p) ==
    [ndim |-> 2, finite |-> TRUE,
     rows |-> [i \in 1..n |-> [j \in 1..m |-> (i + p) % 2]]]

\* One-column arrays of one content, two-column arrays of two.
ValidArrays ==
    {Array(n, 1, 0) : n \in 1..MaxRows} \cup {Array(n, 2, p) : n \in 1..MaxRows, p \in 0..1}

Malformed ==
    {[ndim |-> 1, finite |-> TRUE,  rows |-> << <<0, 1>> >>],   \* a flat vector
     [ndim |-> 2, finite |-> TRUE,  rows |-> <<>>],             \* no samples
     [ndim |-> 2, finite |-> FALSE, rows |-> << <<0>> >>]}      \* holds NaN

Inputs == ValidArrays \cup Malformed

NoArray == [ndim |-> 0, finite |-> TRUE, rows |-> <<>>]

NoLabels == [given |-> FALSE, discrete |-> TRUE, vals |-> <<>>]

Labels ==
    {NoLabels,
     [given |-> TRUE, discrete |-> TRUE,  vals |-> <<0, 0>>],   \* one class
     [given |-> TRUE, discrete |-> FALSE, vals |-> <<0, 1>>]}   \* continuous targets

NRows(X) == Len(X.rows)
NCols(X) == Len(X.rows[1])

----------------------------------------------------------------------------
(* The collaborators from scikit-learn, as IForest calls them *)

Min(a, b) == IF a <= b THEN a ELSE b

RECURSIVE SumSeq(_)
SumSeq(s) == IF s = <<>> THEN 0 ELSE s[1] + SumSeq(Tail(s))

ArraySum(X) == SumSeq([i \in 1..NRows(X) |-> SumSeq(X.rows[i])])

\* check_array(X): accepts a finite two-dimensional array with at least one
\* sample and one feature, and raises ValueError otherwise.
check_array(X) ==
    /\ X.ndim = 2
    /\ X.finite
    /\ NRows(X) >= 1
    /\ NCols(X) >= 1

\* IsolationForest(**params): an untrained estimator holding the parameters.
IsolationForest(params, id) ==
    [id                  |-> id,
     params              |-> params,
     max_samples_        |-> Absent,
     n_features_         |-> Absent,
     estimators_         |-> Absent,
     estimators_samples_ |-> Absent]

Trained(h) == Has(h.estimators_)

\* IsolationForest.fit(X, y=None, sample_weight=None) with generator draw
\* `seed`: resolves max_samples, then validates n_estimators and max_features
\* and grows the trees.  ok = FALSE is a ValueError raised by the estimator.
WrappedFit(h, X, seed) ==
    LET p   == h.params
        n   == NRows(X)
        m   == NCols(X)
        ms  == IF p.max_samples = AUTO THEN Min(AutoCap, n) ELSE Min(p.max_samples, n)
        mf  == (p.max_features * m) \div 100
        h1  == [h EXCEPT !.max_samples_ = Some(ms)]
    IN  IF p.n_estimators <= 0 \/ ~(0 < mf /\ mf <= m)
        THEN [ok |-> FALSE, h |-> h1]
        ELSE [ok |-> TRUE,
              h  |-> [h1 EXCEPT
                        !.n_features_ = Some(m),
                        !.estimators_ =
                            Some([owner |-> h.id, seed |-> seed, mass |-> ArraySum(X)]),
                        !.estimators_samples_ =
                            Some([owner |-> h.id, drawn |-> ms])]]

\* The generator draws a fit can see: random_state itself when it is set,
\* any draw of the global generator when it is None.
GlobalDraws == {0, 1}

Draws(params) ==
    IF params.random_state = None THEN GlobalDraws ELSE {params.random_state}

\* The native score of one sample: lower is more abnormal.
TreeScore(h, row) ==
    LET f == Get(h.estimators_)
    IN  ((SumSeq(row) + f.seed + f.mass) % 3) - 1

\* IsolationForest.decision_function(X): one native score per sample.
\* "untrained" is the failure of an estimator that was never trained,
\* "ValueError" a malformed array or a wrong number of features.
WrappedDecisionFunction(h, X) ==
    IF ~Trained(h) THEN [out |-> "untrained", val |-> <<>>]
    ELSE IF ~check_array(X) THEN [out |-> "ValueError", val |-> <<>>]
    ELSE IF NCols(X) # Get(h.n_features_) THEN [out |-> "ValueError", val |-> <<>>]
    ELSE [out |-> "ok", val |-> [i \in 1..NRows(X) |-> TreeScore(h, X.rows[i])]]

\* What an untrained estimator raises when asked for scores depends on the
\* scikit-learn release: AttributeError (no estimators_) or NotFittedError.
UntrainedErrors == {"AttributeError", "NotFittedError"}

\* check_is_fitted(obj, attributes): every named attribute is present.
check_is_fitted(present) == \A i \in 1..Len(present) : present[i]

----------------------------------------------------------------------------
(* The collaborators from BaseDetector *)

AttrState ==
    [detector_        |-> detector_,
     decision_scores_ |-> decision_scores_,
     threshold_       |-> threshold_,
     labels_          |-> labels_,
     _classes         |-> _classes]

Range(s) == {s[i] : i \in 1..Len(s)}

\* _set_n_classes(y): two classes by default; with labels, the labels must
\* be classification targets and the class count is the number of distinct
\* labels.
_set_n_classes(S, y) ==
    LET S1 == [S EXCEPT !._classes = Some(2)]
    IN  IF ~y.given THEN [ok |-> TRUE, s |-> S1]
        ELSE IF ~y.discrete THEN [ok |-> FALSE, s |-> S1]
        ELSE [ok |-> TRUE, s |-> [S1 EXCEPT !._classes = Some(Cardinality(Range(y.vals)))]]

\* The score at the (100 - contamination) percentile, by nearest rank.
Percentile(scores, contamination) ==
    LET n == Len(scores)
        k == (n * (100 - contamination) + 99) \div 100
    IN  CHOOSE t \in Range(scores) :
            /\ Cardinality({i \in 1..n : scores[i] <= t}) >= k
            /\ \A u \in Range(scores) :
                   Cardinality({i \in 1..n : scores[i] <= u}) >= k => t <= u

\* _process_decision_scores(): threshold_ from the contamination rate,
\* labels_ marks the scores above it.
_process_decision_scores(S, contamination) ==
    LET sc  == Get(S.decision_scores_)
        thr == Percentile(sc, contamination)
    IN  [S EXCEPT !.threshold_ = Some(thr),
                  !.labels_ = Some([i \in 1..Len(sc) |-> IF sc[i] > thr THEN 1 ELSE 0])]

----------------------------------------------------------------------------
(* IForest *)

\* The inversion left out: the native scores as they are.
NegateForgotten(scores) == scores

\* scores * -1
Negate(scores) == [i \in 1..Len(scores) |-> scores[i] * (-1)]

\* The call with bootstrap left at the wrapped estimator's default.
ForwardedParamsNoBootstrap(c) == [c EXCEPT !.bootstrap = FALSE]

\* The keyword arguments of the IsolationForest(...) call in fit.
ForwardedParams(c) ==
    [n_estimators  |-> c.n_estimators,
     max_samples   |-> c.max_samples,
     contamination |-> c.contamination,
     max_features  |-> c.max_features,
     bootstrap     |-> c.bootstrap,
     n_jobs        |-> c.n_jobs,
     random_state  |-> c.random_state,
     verbose       |-> c.verbose]

\* The two statements in the other order: the class count is written
\* before the array is validated.
ValidateInputsLabelsFirst(S, X, y) ==
    LET c == _set_n_classes(S, y)
    IN  IF ~c.ok THEN [ok |-> FALSE, s |-> c.s, at |-> "_set_n_classes"]
        ELSE [ok |-> check_array(X), s |-> c.s, at |-> "check_array"]

\* fit, first two statements: X = check_array(X); self._set_n_classes(y).
ValidateInputs(S, X, y) ==
    IF ~check_array(X) THEN [ok |-> FALSE, s |-> S, at |-> "check_array"]
    ELSE LET c == _set_n_classes(S, y)
         IN  [ok |-> c.ok, s |-> c.s, at |-> "_set_n_classes"]

\* The labels handed on to the wrapped estimator, which then learns from them.
TrainDetectorWithLabels(h, X, y, seed) == WrappedFit(h, X, seed + Len(y.vals))

\* self.detector_.fit(X=X, y=None, sample_weight=None)
TrainDetector(h, X, y, seed) == WrappedFit(h, X, seed)

\* fit(X, y) run on attribute state S under configuration c; id names the
\* estimator object it constructs.  s is the attribute state it leaves, out
\* its outcome, at the statement that raised, built whether it constructed
\* an estimator.
FitRun(S, c, X, y, id, seed) ==
    LET v == ValidateInputs(S, X, y)
    IN  IF ~v.ok
        THEN [s |-> v.s, out |-> "ValueError", at |-> v.at, built |-> FALSE]
        ELSE
        LET S2 == [v.s EXCEPT !.detector_ = Some(IsolationForest(ForwardedParams(c), id))]
            w  == TrainDetector(Get(S2.detector_), X, y, seed)
            S3 == [S2 EXCEPT !.detector_ = Some(w.h)]
        IN  IF ~w.ok
            THEN [s |-> S3, out |-> "ValueError", at |-> "detector_.fit", built |-> TRUE]
            ELSE
            LET d == WrappedDecisionFunction(w.h, X)
            IN  IF d.out # "ok"
                THEN [s |-> S3, out |-> "ValueError",
                      at |-> "detector_.decision_function", built |-> TRUE]
                ELSE
                LET S4 == [S3 EXCEPT !.decision_scores_ = Some(Negate(d.val))]
                IN  [s |-> _process_decision_scores(S4, c.contamination),
                     out |-> "ok", at |-> "return", built |-> TRUE]

\* The guard asking for the handle instead of the three score attributes.
FittedGuardOnHandle(S) == check_is_fitted(<<Has(S.detector_)>>)

\* check_is_fitted(self, ['decision_scores_', 'threshold_', 'labels_'])
FittedGuard(S) ==
    check_is_fitted(<<Has(S.decision_scores_), Has(S.threshold_), Has(S.labels_)>>)

Raised(kind) == [out |-> kind, val |-> <<>>]

\* decision_function answering with the stored training scores.
DecisionFunctionStored(S, X) ==
    IF ~FittedGuard(S) THEN {Raised("NotFittedError")}
    ELSE {[out |-> "ok", val |-> Get(S.decision_scores_)]}

\* decision_function(X): the outcomes the call can have in attribute state S.
DecisionFunctionResults(S, X) ==
    IF ~FittedGuard(S) THEN {Raised("NotFittedError")}
    ELSE IF ~Has(S.detector_) THEN {Raised("AttributeError")}
    ELSE LET d == WrappedDecisionFunction(Get(S.detector_), X)
         IN  IF d.out = "untrained" THEN {Raised(e) : e \in UntrainedErrors}
             ELSE IF d.out = "ok" THEN {[out |-> "ok", val |-> Negate(d.val)]}
             ELSE {Raised(d.out)}

\* A read that keeps what it computed in decision_scores_.
AfterReadCaching(S, r) ==
    IF r.out = "ok" THEN [S EXCEPT !.decision_scores_ = Some(r.val)] ELSE S

\* The attribute state decision_function and the accessors leave: they
\* assign nothing.
AfterRead(S, r) == S

AccessorNames == {"estimators_", "estimators_samples_", "max_samples_"}

\* estimators_ answering with the attribute of the next property.
AccessorResultSwapped(S, name) ==
    IF ~Has(S.detector_) THEN Raised("AttributeError")
    ELSE LET h == Get(S.detector_)
             a == CASE name = "estimators_"         -> h.estimators_samples_
                    [] name = "estimators_samples_" -> h.estimators_samples_
                    [] name = "max_samples_"        -> h.max_samples_
         IN  IF Has(a) THEN [out |-> "ok", val |-> a] ELSE Raised("AttributeError")

\* self.detector_.<name>
AccessorResult(S, name) ==
    IF ~Has(S.detector_) THEN Raised("AttributeError")
    ELSE LET h == Get(S.detector_)
             a == CASE name = "estimators_"         -> h.estimators_
                    [] name = "estimators_samples_" -> h.estimators_samples_
                    [] name = "max_samples_"        -> h.max_samples_
         IN  IF Has(a) THEN [out |-> "ok", val |-> a] ELSE Raised("AttributeError")

----------------------------------------------------------------------------
(* The state machine *)

NoFit == [called |-> FALSE, cfg |-> DefaultConfig, X |-> NoArray, seed |-> 0,
          out |-> "none", at |-> "none"]

Call(op, X, y, name, r) ==
    [op |-> op, X |-> X, y |-> y, name |-> name, out |-> r.out, val |-> r.val]

Init ==
    /\ cfg \in Configs
    /\ detector_ = Absent
    /\ decision_scores_ = Absent
    /\ threshold_ = Absent
    /\ labels_ = Absent
    /\ _classes = Absent
    /\ last = Call("__init__", NoArray, NoLabels, "", [out |-> "ok", val |-> <<>>])
    /\ lastFit = NoFit
    /\ everFitOk = FALSE
    /\ nConstructed = 0

Store(S) ==
    /\ detector_' = S.detector_
    /\ decision_scores_' = S.decision_scores_
    /\ threshold_' = S.threshold_
    /\ labels_' = S.labels_
    /\ _classes' = S._classes

\* fit(X, y).  A call that gets past validation constructs an estimator,
\* which the model allows MaxFits times; only such a call reaches the
\* generator.
Fit(X, y) ==
    /\ ValidateInputs(AttrState, X, y).ok => nConstructed < MaxFits
    /\ \E seed \in (IF ValidateInputs(AttrState, X, y).ok THEN Draws(cfg) ELSE {0}) :
        LET r == FitRun(AttrState, cfg, X, y, nConstructed + 1, seed)
        IN  /\ Store(r.s)
            /\ nConstructed' = IF r.built THEN nConstructed + 1 ELSE nConstructed
            /\ last' = Call("fit", X, y, "", [out |-> r.out, val |-> <<>>])
            /\ lastFit' = IF r.built
                           THEN [called |-> TRUE, cfg |-> cfg, X |-> X, seed |-> seed,
                                 out |-> r.out, at |-> r.at]
                           ELSE lastFit
            /\ everFitOk' = (everFitOk \/ r.out = "ok")
            /\ UNCHANGED cfg

DecisionFunction(X) ==
    \E r \in DecisionFunctionResults(AttrState, X) :
        /\ Store(AfterRead(AttrState, r))
        /\ last' = Call("decision_function", X, NoLabels, "", r)
        /\ UNCHANGED <<cfg, lastFit, everFitOk, nConstructed>>

Accessor(name) ==
    LET r == AccessorResult(AttrState, name)
    IN  /\ Store(AfterRead(AttrState, r))
        /\ last' = Call("accessor", NoArray, NoLabels, name, r)
        /\ UNCHANGED <<cfg, lastFit, everFitOk, nConstructed>>

Next ==
    \/ \E X \in Inputs, y \in Labels : Fit(X, y)
    \/ \E X \in Inputs : DecisionFunction(X)
    \/ \E name \in AccessorNames : Accessor(name)

Spec == Init /\ [][Next]_vars

----------------------------------------------------------------------------
(* Properties *)

IsRead == last.op \in {"decision_function", "accessor"}
ScoredOk == last.op = "decision_function" /\ last.out = "ok"
LastFitOk == lastFit.out = "ok"
Handle == Get(detector_)

\* C1: while no fit has returned normally, decision_function raises
\* NotFittedError (never a plain AttributeError) and returns no scores.
C1_UnfittedScoringRaisesNotFitted ==
    (last.op = "decision_function" /\ ~everFitOk)
        => (last.out = "NotFittedError" /\ last.val = <<>>)

\* C1 witness: decision_function was called after a fit that raised inside
\* the wrapped estimator's fit, leaving an untrained handle behind.
C1_Witness ==
    /\ last.op = "decision_function"
    /\ ~everFitOk
    /\ lastFit.at = "detector_.fit"
    /\ Has(detector_)
    /\ last.out = "NotFittedError"

\* C2: while no fit has returned normally, each accessor raises
\* NotFittedError.
C2_UnfittedAccessorsRaiseNotFitted ==
    (last.op = "accessor" /\ ~everFitOk) => last.out = "NotFittedError"

\* C3: the scores decision_function returns are the element-wise negation
\* of the wrapped estimator's scores for the same handle and input, an error
\* of the wrapped scoring is the call's error, and after a successful fit
\* decision_scores_ is the negation of the wrapped scores on the training
\* data, which is what decision_function returns for that data.
C3_ScoresAreNegatedNativeScores ==
    /\ ScoredOk =>
          LET w == WrappedDecisionFunction(Handle, last.X)
          IN  /\ w.out = "ok"
              /\ Len(last.val) = Len(w.val)
              /\ \A i \in 1..Len(w.val) : last.val[i] + w.val[i] = 0
    /\ (last.op = "decision_function" /\ FittedGuard(AttrState) /\ Has(detector_)
            /\ WrappedDecisionFunction(Handle, last.X).out = "ValueError")
          => last.out = "ValueError"
    /\ LastFitOk =>
          LET w == WrappedDecisionFunction(Handle, lastFit.X)
          IN  /\ w.out = "ok"
              /\ Has(decision_scores_)
              /\ Len(Get(decision_scores_)) = Len(w.val)
              /\ \A i \in 1..Len(w.val) : Get(decision_scores_)[i] + w.val[i] = 0
    /\ (last.op = "decision_function" /\ LastFitOk /\ last.X = lastFit.X)
          => (last.out = "ok" /\ last.val = Get(decision_scores_))

\* C3 witness: decision_function returned scores, not all zero, for the
\* training data of the fitted handle.
C3_Witness ==
    /\ ScoredOk
    /\ LastFitOk
    /\ last.X = lastFit.X
    /\ \E i \in 1..Len(last.val) : last.val[i] # 0

\* C4: a decision_function or accessor call, whether it returns or raises,
\* leaves every attribute and the configuration unchanged and constructs no
\* estimator.
C4_ReadsChangeNothing ==
    [][(last'.op \in {"decision_function", "accessor"})
          => UNCHANGED <<attrs, cfg, lastFit, everFitOk, nConstructed>>]_vars

\* C4 witness: a read call returned on a fitted detector.
C4_Witness == IsRead /\ last.out = "ok" /\ Has(decision_scores_)

\* C5 as stated: after a successful fit decision_scores_ has one entry per
\* training row, and decision_function on any valid array returns one score
\* per row of it.
C5_OneScorePerRowAnyValidInput ==
    /\ LastFitOk => Len(Get(decision_scores_)) = NRows(lastFit.X)
    /\ (last.op = "decision_function" /\ LastFitOk /\ check_array(last.X))
          => (last.out = "ok" /\ Len(last.val) = NRows(last.X))

\* C5 amended: after a successful fit decision_scores_ has one entry per
\* training row, and decision_function on a valid array with as many
\* columns as the training data returns one score per row of it.
C5_OneScorePerRowSameWidth ==
    /\ LastFitOk => Len(Get(decision_scores_)) = NRows(lastFit.X)
    /\ (last.op = "decision_function" /\ LastFitOk /\ check_array(last.X)
            /\ NCols(last.X) = NCols(lastFit.X))
          => (last.out = "ok" /\ Len(last.val) = NRows(last.X))

\* C5 witness: scores were returned for an array with a different number of
\* rows than the training data.
C5_Witness ==
    /\ ScoredOk
    /\ LastFitOk
    /\ NRows(last.X) # NRows(lastFit.X)

\* What fit(X) without labels would have left, for some generator draw.
SameAsUnlabelled(full) ==
    \E seed \in Draws(cfg) :
        LET r == FitRun(AttrState, cfg, last'.X, NoLabels, nConstructed + 1, seed)
        IN  /\ last'.out = r.out
            /\ detector_' = r.s.detector_
            /\ decision_scores_' = r.s.decision_scores_
            /\ threshold_' = r.s.threshold_
            /\ labels_' = r.s.labels_
            /\ full => _classes' = r.s._classes

C7_AccessorsPassThrough ==
    /\ (last.op = "accessor" /\ last.out = "ok") =>
          /\ Has(detector_)
          /\ last.name = "estimators_" =>
                (last.val = Handle.estimators_ /\ Get(last.val).owner = nConstructed)
          /\ last.name = "estimators_samples_" =>
                (last.val = Handle.estimators_samples_ /\ Get(last.val).owner = nConstructed)
          /\ last.name = "max_samples_" => last.val = Handle.max_samples_
    /\ (last.op = "accessor" /\ Has(detector_) /\ Trained(Handle)) => last.out = "ok"

\* C7 witness: estimators_ was read after a second estimator was trained.
C7_Witness ==
    /\ last.op = "accessor"
    /\ last.name = "estimators_"
    /\ last.out = "ok"
    /\ nConstructed >= 2
    /\ everFitOk /\ LastFitOk

\* C8: after a successful fit the handle is the estimator constructed by
\* that call, holding each configuration value as given, trained on that
\* call's data alone, and decision_scores_ are that estimator's negated
\* scores on that data.
C8_FitRebuildsFromConfiguration ==
    LastFitOk =>
        /\ Has(detector_)
        /\ Handle.id = nConstructed
        /\ \A f \in DOMAIN DefaultConfig : Handle.params[f] = lastFit.cfg[f]
        /\ lastFit.cfg = cfg
        /\ Handle = WrappedFit(IsolationForest(lastFit.cfg, nConstructed),
                               lastFit.X, lastFit.seed).h
        /\ decision_scores_ =
              Some([i \in 1..NRows(lastFit.X) |->
                       0 - TreeScore(Handle, lastFit.X.rows[i])])

\* C8 witness: a second fit succeeded under the configuration that changes
\* six constructor arguments.
C8_Witness ==
    /\ LastFitOk
    /\ last.op = "fit"
    /\ nConstructed = 2
    /\ cfg.bootstrap

\* C9: a fit call whose array fails validation raises and leaves every
\* attribute, the class count included, as it was.
C9_InvalidInputWritesNothing ==
    [][(last'.op = "fit" /\ ~check_array(last'.X))
          => (last'.out = "ValueError"
              /\ UNCHANGED <<attrs, cfg, lastFit, everFitOk, nConstructed>>)]_vars

\* C9 witness: a fit with a malformed array raised on a fitted detector.
C9_Witness ==
    /\ last.op = "fit"
    /\ ~check_array(last.X)
    /\ last.out = "ValueError"
    /\ LastFitOk
    /\ FittedGuard(AttrState)

\* C10: whenever the guard of decision_function passes, detector_ is a
\* trained estimator, the one whose negated scores on its training data are
\* the stored decision_scores_.
C10_GuardMeansTrainedHandle ==
    FittedGuard(AttrState) =>
        /\ Has(detector_)
        /\ Trained(Handle)
        /\ decision_scores_ = Some(Negate(WrappedDecisionFunction(Handle, lastFit.X).val))

====
